---- MODULE Spec2Model ----
(***************************************************************************)
(* goline: the byte-level line-wrap engine of src/main.go.                 *)
(*                                                                         *)
(* src/main.go holds two complete engines.  The maxlenWriter main (lines   *)
(* 496-839) is specified by Spec: ReadByte is one iteration of its byte    *)
(* loop, EndOfStream is the io.EOF branch with the residual Write and the  *)
(* Printf of out, Exit is the return of main, which runs the deferred      *)
(* maxlenW.Close(), and Rerun starts the tool again on the bytes the       *)
(* previous run printed.  The inline main (lines 102-312) is specified by  *)
(* SpecInline: InlineReadByte and InlineEndOfStream, on the same state.    *)
(***************************************************************************)
EXTENDS Integers, Sequences, FiniteSets, TLC

\* ---- bounds of the model ----
MaxInputLen == 4
MaxMaxlen == 3
MaxPathLen == 2
MaxPaths == 2

\* ---- bytes ----
\* The bytes input files are built from: a letter, two boundary bytes that
\* also form the comment markers, newline, tab and space.
InputBytes == {"a", "/", "*", "\n", "\t", " "}

\* var lastB byte: the zero value of a byte
ZeroByte == "NUL"

\* tokEnds of the maxlenWriter main
tokEndBytes ==
    {"~", "!", "^", "*", "(", ")", "-", "+", "=", "|",
     "}", "{", ":", ";", "/", "?", ".", ">", "<", ",", "\n"}

VARIABLES
    maxlen,      \* maxlenW.maxlen
    content,     \* the bytes of the source file read into srcBuf
    pos,         \* number of bytes of srcBuf already read
    out,         \* out, the buffer maxlenW.out points to
    line,        \* maxlenW.line
    tok,         \* tok
    lineIndent,  \* lineIndent.before: [tabs, spaces]
    syntaxMode,  \* syntaxMode: "", "line-comment", "block-comment"
    lastB,       \* lastB
    pc,          \* "loop", "printed" (after Printf), "exit" (main returned)
    printed,     \* what Printf (log.Printf in the inline main) wrote
    toks,        \* history: the tokens handed to maxlenWriter.Write, in order
                 \* (inline main: the byte runs written to out and line)
    breaks,      \* history: one record per line break made by Write
    run,         \* 1 for the first run, 2 for the run on the first run's output
    firstOut,    \* what the first run printed
    deferred     \* number of earlier paths of this run whose writer still
                 \* waits for its deferred Close (nothing reads their buffers)

vars == <<maxlen, content, pos, out, line, tok, lineIndent, syntaxMode, lastB,
          pc, printed, toks, breaks, run, firstOut, deferred>>

\* ---- helpers on byte sequences ----
RECURSIVE SeqsUpTo(_)
SeqsUpTo(n) ==
    IF n = 0 THEN {<<>>}
    ELSE LET shorter == SeqsUpTo(n - 1)
         IN  shorter \cup {Append(s, b) : s \in {t \in shorter : Len(t) = n - 1},
                                          b \in InputBytes}

RECURSIVE Repeat(_, _)
Repeat(b, n) == IF n = 0 THEN <<>> ELSE <<b>> \o Repeat(b, n - 1)

RECURSIVE Flatten(_)
Flatten(ss) == IF ss = <<>> THEN <<>> ELSE Head(ss) \o Flatten(Tail(ss))

\* ---- indentParams ----
tabsBytes(p) == Repeat("\t", p.tabs)

spacesBytes(p) == Repeat(" ", p.spaces)

bytes(p) == tabsBytes(p) \o spacesBytes(p)

\* ---- maxlenWriter.Write ----
\* a variant that already breaks when the token fills the line exactly
NeedNewLineAtLimit(l, t) == Len(l) + Len(t) >= maxlen

\* "If we need a new line"
NeedNewLine(l, t) == Len(l) + Len(t) > maxlen

\* first switch of Write: the (by-value) indent is incremented by one tab
WrapIndent(mode, ind) == [ind EXCEPT !.tabs = @ + 1]

\* second switch of Write: what is written to the fresh line before the token
PreContent(mode, ind) == bytes(WrapIndent(mode, ind))

\* the buffers after Write(t, mode, ind) on a writer holding o and l
Write(o, l, t, mode, ind) ==
    IF NeedNewLine(l, t)
    THEN [out |-> o \o l \o <<"\n">>, line |-> PreContent(mode, ind) \o t]
    ELSE [out |-> o, line |-> l \o t]

\* the history record of the break Write makes, if it makes one
BreakOf(l, t, mode, ind) ==
    IF NeedNewLine(l, t)
    THEN << [at |-> Len(Flatten(toks)), mode |-> mode, tok |-> t,
             newLine |-> PreContent(mode, ind) \o t] >>
    ELSE << >>

\* ---- maxlenWriter.Close ----
Close(o, l) == IF Len(l) > 0 THEN [out |-> o \o l, line |-> <<>>]
               ELSE [out |-> o, line |-> l]

\* ---- the byte loop of main ----
\* "If beginning of line indent write and record new indent level"
IndentAfter(ind, prev, b) ==
    IF b = "\t" THEN [ind EXCEPT !.tabs = @ + 1]
    ELSE IF prev = " " /\ b = prev THEN [ind EXCEPT !.spaces = @ + 1]
    ELSE ind

\* "If entering comment"
ModeAfter(mode, prev, b) ==
    IF mode = "block-comment"
    THEN IF prev = "*" /\ b = "/" THEN "" ELSE mode
    ELSE IF prev = "/" /\ b = "*" THEN "block-comment"
    ELSE IF prev = "/" /\ b = prev THEN "line-comment"
    ELSE mode

\* a variant that also ends a token at a space
matchTokEndsOrSpace(b) == b \in tokEndBytes \cup {" "}

\* "If b starts a new token"
matchTokEnds(b) == b \in tokEndBytes

\* tok.WriteByte(b)
Accumulate(t, b) == Append(t, b)

\* a variant in which the byte just read is put back after a newline
ReadOffUnread(p) == IF p >= 1 /\ content[p] = "\n" THEN p ELSE p + 1

\* srcBuf.ReadByte(): the read offset after a byte was read at offset p
ReadOff(p) == p + 1

Init ==
    /\ maxlen \in 1..MaxMaxlen
    /\ content \in SeqsUpTo(MaxInputLen)
    /\ pos = 0
    /\ out = <<>>
    /\ line = <<>>
    /\ tok = <<>>
    /\ lineIndent = [tabs |-> 0, spaces |-> 0]
    /\ syntaxMode = ""
    /\ lastB = ZeroByte
    /\ pc = "loop"
    /\ printed = <<>>
    /\ toks = <<>>
    /\ breaks = <<>>
    /\ run = 1
    /\ firstOut = <<>>
    /\ deferred = 0

\* one iteration of the byte loop
ReadByte ==
    /\ pc = "loop"
    /\ pos < Len(content)
    /\ LET b    == content[pos + 1]
           ind  == IndentAfter(lineIndent, lastB, b)
           mode == ModeAfter(syntaxMode, lastB, b)
           w    == IF matchTokEnds(b) THEN Write(out, line, tok, mode, ind)
                   ELSE [out |-> out, line |-> line]
       IN  /\ pos' = ReadOff(pos)
           /\ lineIndent' = ind
           /\ syntaxMode' = mode
           /\ out' = w.out
           /\ line' = w.line
           /\ tok' = Accumulate(IF matchTokEnds(b) THEN <<>> ELSE tok, b)
           /\ toks' = IF matchTokEnds(b) THEN Append(toks, tok) ELSE toks
           /\ breaks' = IF matchTokEnds(b)
                        THEN breaks \o BreakOf(line, tok, mode, ind)
                        ELSE breaks
           /\ lastB' = b
    /\ UNCHANGED <<maxlen, content, pc, printed, run, firstOut, deferred>>

\* io.EOF: leave the loop, write the remaining token, print out
EndOfStream ==
    /\ pc = "loop"
    /\ pos = Len(content)
    /\ LET w == IF Len(tok) > 0
                THEN Write(out, line, tok, syntaxMode, lineIndent)
                ELSE [out |-> out, line |-> line]
       IN  /\ out' = w.out
           /\ line' = w.line
           /\ tok' = <<>>
           /\ toks' = IF Len(tok) > 0 THEN Append(toks, tok) ELSE toks
           /\ breaks' = IF Len(tok) > 0
                        THEN breaks \o BreakOf(line, tok, syntaxMode, lineIndent)
                        ELSE breaks
           /\ printed' = w.out \o <<"\n">>
    /\ pc' = "printed"
    /\ UNCHANGED <<maxlen, content, pos, lineIndent, syntaxMode, lastB,
                   run, firstOut, deferred>>

\* main returns: the deferred maxlenW.Close() of every path runs
Exit ==
    /\ pc = "printed"
    /\ LET w == Close(out, line)
       IN  /\ out' = w.out
           /\ line' = w.line
    /\ deferred' = 0
    /\ pc' = "exit"
    /\ UNCHANGED <<maxlen, content, pos, tok, lineIndent, syntaxMode, lastB,
                   printed, toks, breaks, run, firstOut>>

\* the tool is run again, with the same maxlen, on what the first run printed
Rerun ==
    /\ pc = "exit"
    /\ run = 1
    /\ run' = 2
    /\ firstOut' = printed
    /\ content' = printed
    /\ pos' = 0
    /\ out' = <<>>
    /\ line' = <<>>
    /\ tok' = <<>>
    /\ lineIndent' = [tabs |-> 0, spaces |-> 0]
    /\ syntaxMode' = ""
    /\ lastB' = ZeroByte
    /\ pc' = "loop"
    /\ printed' = <<>>
    /\ toks' = <<>>
    /\ breaks' = <<>>
    /\ deferred' = 0
    /\ UNCHANGED maxlen

Next == ReadByte \/ EndOfStream \/ Exit \/ Rerun

Spec == Init /\ [][Next]_vars

\* main is one sequential program: a step that can be taken is taken
LiveSpec ==
    Spec /\ WF_vars(ReadByte) /\ WF_vars(EndOfStream) /\ WF_vars(Exit)
         /\ WF_vars(Rerun)

\* ---- several paths in one run ----
\* the state a path starts with: everything main declares inside the loop
\* over paths
InitPaths ==
    /\ maxlen \in 1..MaxMaxlen
    /\ content \in SeqsUpTo(MaxPathLen)
    /\ pos = 0
    /\ out = <<>>
    /\ line = <<>>
    /\ tok = <<>>
    /\ lineIndent = [tabs |-> 0, spaces |-> 0]
    /\ syntaxMode = ""
    /\ lastB = ZeroByte
    /\ pc = "loop"
    /\ printed = <<>>
    /\ toks = <<>>
    /\ breaks = <<>>
    /\ run = 1
    /\ firstOut = <<>>
    /\ deferred = 0

\* a variant in which lastB is declared outside the loop over paths
NextPathKeepLastB ==
    /\ pc = "printed"
    /\ deferred + 1 < MaxPaths
    /\ content' \in SeqsUpTo(MaxPathLen)
    /\ deferred' = deferred + 1
    /\ pos' = 0
    /\ out' = <<>>
    /\ line' = <<>>
    /\ tok' = <<>>
    /\ lineIndent' = [tabs |-> 0, spaces |-> 0]
    /\ syntaxMode' = ""
    /\ lastB' = lastB
    /\ pc' = "loop"
    /\ printed' = <<>>
    /\ toks' = <<>>
    /\ breaks' = <<>>
    /\ UNCHANGED <<maxlen, run, firstOut>>

\* the next iteration of "for _, path := range paths": the file is read and
\* out, maxlenW, tok, lineIndent, syntaxMode and lastB are declared anew; the
\* Close of the previous writer stays deferred
NextPath ==
    /\ pc = "printed"
    /\ deferred + 1 < MaxPaths
    /\ content' \in SeqsUpTo(MaxPathLen)
    /\ deferred' = deferred + 1
    /\ pos' = 0
    /\ out' = <<>>
    /\ line' = <<>>
    /\ tok' = <<>>
    /\ lineIndent' = [tabs |-> 0, spaces |-> 0]
    /\ syntaxMode' = ""
    /\ lastB' = ZeroByte
    /\ pc' = "loop"
    /\ printed' = <<>>
    /\ toks' = <<>>
    /\ breaks' = <<>>
    /\ UNCHANGED <<maxlen, run, firstOut>>

NextPaths == ReadByte \/ EndOfStream \/ Exit \/ NextPath

SpecPaths == InitPaths /\ [][NextPaths]_vars

\* ---- the inline main (lines 102-312) ----
\* tokEnds of the inline main
tokEndBytesInline ==
    {"~", "!", "@", "#", "$", "%", "^", "&", "*", "(", ")",
     "-", "+", "=", "|", "}", "]", "{", "[", ":", ";", "/", "?", ".",
     ">", "<", ","}

\* the two branches of "If beginning of line indent write and record new
\* indent level" that count the byte and continue without storing it
InlineIndentSkip(prev, b) == (prev = "\t" /\ b = prev) \/ (prev = " " /\ b = prev)

\* the branches of "If entering comment" that store the byte and continue
InlineModeBranch(mode, prev, b) ==
    IF mode = "block-comment" THEN prev = "*" /\ b = "/"
    ELSE prev = "/" /\ (b = "*" \/ b = prev)

\* "If token ending byte"
matchTokEndBytes(b) == b \in tokEndBytesInline

\* "Check if doing so would make line larger"
doNewLine(l, t, b) == matchTokEndBytes(b) /\ Len(l) + Len(t) > maxlen

\* one iteration of the byte loop of the inline main
InlineReadByte ==
    /\ pc = "loop"
    /\ pos < Len(content)
    /\ pos' = pos + 1
    /\ LET b == content[pos + 1]
       IN  IF InlineIndentSkip(lastB, b)
           THEN /\ lineIndent' = IF b = "\t"
                                 THEN [lineIndent EXCEPT !.tabs = @ + 1]
                                 ELSE [lineIndent EXCEPT !.spaces = @ + 1]
                /\ lastB' = b
                /\ UNCHANGED <<out, line, tok, syntaxMode, toks, breaks>>
           ELSE IF InlineModeBranch(syntaxMode, lastB, b)
           THEN /\ syntaxMode' = ModeAfter(syntaxMode, lastB, b)
                /\ tok' = Append(tok, b)
                /\ lastB' = b
                /\ UNCHANGED <<out, line, lineIndent, toks, breaks>>
           ELSE LET match == matchTokEndBytes(b)
                    out1  == IF match THEN out \o tok ELSE out
                    tok1  == IF match THEN <<b>> ELSE tok
                    toks1 == IF match THEN Append(toks, tok) ELSE toks
                IN  IF doNewLine(line, tok, b) \/ b = "\n"
                    THEN /\ out' = out1 \o line \o tok1 \o <<"\n">>
                         /\ line' = <<>>
                         /\ tok' = <<>>
                         /\ toks' = IF b = "\n"
                                    THEN Append(Append(toks1, tok1), <<b>>)
                                    ELSE Append(toks1, tok1)
                         /\ breaks' = IF b = "\n" THEN breaks
                                      ELSE Append(breaks,
                                             [at |-> pos + 1, mode |-> syntaxMode,
                                              tok |-> tok1, newLine |-> <<>>])
                         /\ UNCHANGED <<lineIndent, syntaxMode, lastB>>
                    ELSE /\ out' = out1
                         /\ line' = line
                         /\ tok' = IF match THEN tok1 ELSE Append(tok1, b)
                         /\ toks' = toks1
                         /\ lastB' = b
                         /\ UNCHANGED <<lineIndent, syntaxMode, breaks>>
    /\ UNCHANGED <<maxlen, content, pc, printed, run, firstOut, deferred>>

\* io.EOF in the inline main: "Write remaining lines and tokens", log out
InlineEndOfStream ==
    /\ pc = "loop"
    /\ pos = Len(content)
    /\ out' = out \o line \o tok
    /\ line' = <<>>
    /\ tok' = <<>>
    /\ toks' = IF Len(tok) > 0 THEN Append(toks, tok) ELSE toks
    /\ printed' = out \o line \o tok \o <<"\n">>
    /\ pc' = "printed"
    /\ UNCHANGED <<maxlen, content, pos, lineIndent, syntaxMode, lastB,
                   breaks, run, firstOut, deferred>>

NextInline == InlineReadByte \/ InlineEndOfStream

SpecInline == Init /\ [][NextInline]_vars

\* ---- helpers for the properties ----
\* the lines of a byte sequence, split at newline bytes
RECURSIVE SplitLines(_)
SplitLines(s) ==
    IF s = <<>> THEN << <<>> >>
    ELSE LET rest == SplitLines(Tail(s))
         IN  IF Head(s) = "\n" THEN << <<>> >> \o rest
             ELSE << <<Head(s)>> \o Head(rest) >> \o Tail(rest)

\* a byte sequence with its newline bytes removed
RECURSIVE StripNewlines(_)
StripNewlines(s) ==
    IF s = <<>> THEN <<>>
    ELSE IF Head(s) = "\n" THEN StripNewlines(Tail(s))
    ELSE <<Head(s)>> \o StripNewlines(Tail(s))

\* the leading tabs and spaces of a byte sequence
RECURSIVE LeadingWhitespace(_)
LeadingWhitespace(s) ==
    IF s = <<>> \/ Head(s) \notin {"\t", " "} THEN <<>>
    ELSE <<Head(s)>> \o LeadingWhitespace(Tail(s))

\* a byte sequence without its leading tabs and spaces
RECURSIVE DropLeadingWhitespace(_)
DropLeadingWhitespace(s) ==
    IF s = <<>> \/ Head(s) \notin {"\t", " "} THEN s
    ELSE DropLeadingWhitespace(Tail(s))

\* the source line of content that holds byte p + 1, from its first byte on
\* (a newline byte belongs to the line it ends)
SourceLineFrom(p) ==
    LET nls   == {i \in 1..p : content[i] = "\n"}
        start == IF nls = {} THEN 1
                 ELSE (CHOOSE i \in nls : \A j \in nls : j <= i) + 1
    IN  SubSeq(content, start, Len(content))

\* the bytes read so far of the source line in progress
LineInProgress ==
    LET nls   == {i \in 1..pos : content[i] = "\n"}
        start == IF nls = {} THEN 1
                 ELSE (CHOOSE i \in nls : \A j \in nls : j <= i) + 1
    IN  SubSeq(content, start, pos)

\* how often the byte b occurs in s
Count(s, b) == Cardinality({i \in DOMAIN s : s[i] = b})

\* the last line of a byte sequence
LastLine(s) == SplitLines(s)[Len(SplitLines(s))]

\* the byte read by the step that has just been taken
ByteRead == content[pos]

\* the input is one token: no token-ending byte and no whitespace in it
SingleToken(s) ==
    /\ s # <<>>
    /\ \A i \in DOMAIN s : s[i] \notin tokEndBytes \cup {"\t", " "}

\* ---- the properties ----

\* C1 (max-length invariant): every line of the output built by
\* maxlenWriter.Write is at most maxlen bytes long, except a line that is
\* exactly one token handed to Write whose own length exceeds maxlen.
C1_MaxLenInvariant ==
    \A i \in DOMAIN SplitLines(out) :
        LET l == SplitLines(out)[i]
        IN  \/ Len(l) <= maxlen
            \/ \E j \in DOMAIN toks : Len(toks[j]) > maxlen /\ l = toks[j]

\* C2 (losslessness): when no token is longer than maxlen, the complete
\* output (the buffer once Close has flushed the last line) with its newline
\* bytes removed equals the input with its newline bytes removed.
C2_Lossless ==
    (pc = "exit" /\ \A j \in DOMAIN toks : Len(toks[j]) <= maxlen)
        => StripNewlines(out) = StripNewlines(content)

\* C3 (token atomicity): every line break Write inserts sits at the start of
\* a token, and never between two adjacent input bytes neither of which is a
\* token-ending byte.
C3_TokenAtomicity ==
    \A i \in DOMAIN breaks :
        LET p == breaks[i].at
        IN  /\ p < Len(content)
            /\ breaks[i].tok = SubSeq(content, p + 1, p + Len(breaks[i].tok))
            /\ ~ (p >= 1 /\ content[p] \notin tokEndBytes
                         /\ content[p + 1] \notin tokEndBytes)

\* a line break was inserted in the middle of the input, before a token
C3_Witness ==
    /\ pc = "exit"
    /\ \E i \in DOMAIN breaks : breaks[i].at >= 2 /\ Len(breaks[i].tok) >= 2

\* C4 (comment markers are indivisible): whenever a byte pair changes the
\* syntax mode, its two bytes are in the same token afterwards.
C4_MarkersIndivisible ==
    [][(pc = "loop" /\ pos' = pos + 1 /\ syntaxMode' # syntaxMode)
          => /\ Len(tok') >= 2
             /\ tok'[Len(tok') - 1] = lastB
             /\ tok'[Len(tok')] = lastB']_vars

\* C5 (idempotence): the run on the first run's output prints that output
\* again, byte for byte.
C5_Idempotent ==
    (run = 2 /\ pc \in {"printed", "exit"}) => printed = firstOut

\* C6 (line-comment continuation): every line Write starts while the mode is
\* line-comment begins, after its indentation, with the marker //.
C6_LineCommentPrefix ==
    \A i \in DOMAIN breaks :
        breaks[i].mode = "line-comment"
            => LET body == DropLeadingWhitespace(breaks[i].newLine)
               IN  Len(body) >= 2 /\ body[1] = "/" /\ body[2] = "/"

\* C7 (indentation preservation): the leading whitespace of every line Write
\* starts is the leading whitespace of the source line being wrapped.
C7_IndentPreserved ==
    \A i \in DOMAIN breaks :
        LeadingWhitespace(breaks[i].newLine)
            = LeadingWhitespace(SourceLineFrom(breaks[i].at))

\* C8 (unshortenable line): an input that is one token wider than maxlen
\* comes out as that token alone, with no byte added.
C8_UnshortenableUnchanged ==
    (pc = "exit" /\ SingleToken(content) /\ Len(content) > maxlen)
        => out = content

\* C9 (final flush ordering): when the content has been printed, the residual
\* token has been placed and the current line has been flushed into out.
C9_FlushBeforePrint ==
    pc = "printed" => (tok = <<>> /\ line = <<>>)

\* the engine state the maxlenWriter main reaches on the bytes c when it
\* starts from the state of a first path
AloneStep(st, b) ==
    LET ind  == IndentAfter(st.lineIndent, st.lastB, b)
        mode == ModeAfter(st.syntaxMode, st.lastB, b)
        w    == IF matchTokEnds(b) THEN Write(st.out, st.line, st.tok, mode, ind)
                ELSE [out |-> st.out, line |-> st.line]
    IN  [out |-> w.out, line |-> w.line,
         tok |-> Accumulate(IF matchTokEnds(b) THEN <<>> ELSE st.tok, b),
         lineIndent |-> ind, syntaxMode |-> mode, lastB |-> b]

RECURSIVE AloneLoop(_, _)
AloneLoop(st, c) ==
    IF c = <<>> THEN st ELSE AloneLoop(AloneStep(st, Head(c)), Tail(c))

AlonePrinted(c) ==
    LET st == AloneLoop([out |-> <<>>, line |-> <<>>, tok |-> <<>>,
                         lineIndent |-> [tabs |-> 0, spaces |-> 0],
                         syntaxMode |-> "", lastB |-> ZeroByte], c)
        w  == IF Len(st.tok) > 0
              THEN Write(st.out, st.line, st.tok, st.syntaxMode, st.lineIndent)
              ELSE [out |-> st.out, line |-> st.line]
    IN  [printed |-> w.out \o <<"\n">>, out |-> w.out, line |-> w.line,
         lineIndent |-> st.lineIndent, syntaxMode |-> st.syntaxMode,
         lastB |-> st.lastB]

\* C11 (per-file independence): whatever paths were processed before it, a
\* path's printed content, and the buffers, indent, mode and last byte it
\* ends with, are those of the same file processed as the only path.
C11_PerFileIndependence ==
    pc = "printed" =>
        [printed |-> printed, out |-> out, line |-> line,
         lineIndent |-> lineIndent, syntaxMode |-> syntaxMode,
         lastB |-> lastB] = AlonePrinted(content)

\* a second path has been printed after a first one, and it was wrapped
C11_Witness ==
    /\ pc = "printed"
    /\ deferred = 1
    /\ breaks # <<>>
    /\ printed # <<"\n">>

\* C12 (termination): while the byte loop runs, every step reads exactly the
\* next byte of the file, and the loop ends with every byte read and main
\* returns.
C12_Termination ==
    /\ [][(pc = "loop" /\ pc' = "loop")
            => (pos' = pos + 1 /\ lastB' = content[pos + 1])]_vars
    /\ (pc = "loop") ~> (pc = "printed" /\ pos = Len(content))
    /\ (pc = "loop") ~> (pc = "exit")

\* main has returned after a byte loop over a file of the greatest length
C12_Witness ==
    /\ pc = "exit"
    /\ run = 1
    /\ pos = MaxInputLen
    /\ breaks # <<>>

\* C10 (lossless partition): the tokens handed on so far, followed by the
\* token being built, are the input bytes read so far; at the end of the
\* stream the tokens handed on are the whole input.  (In the inline main the
\* newline byte it writes to line itself counts as handed on.)
C10_LosslessPartition ==
    /\ Flatten(toks) \o tok = SubSeq(content, 1, pos)
    /\ pc # "loop" => Flatten(toks) = content

\* C13 (conforming input is left unchanged): when every line of the input is
\* at most maxlen bytes long, no line break is inserted and the complete
\* output is the input.
C13_ConformingUnchanged ==
    (pc = "exit"
       /\ \A i \in DOMAIN SplitLines(content) :
              Len(SplitLines(content)[i]) <= maxlen)
        => (breaks = <<>> /\ out = content)

\* C14 (a newline flushes token and line): right after a newline byte has
\* been processed, the token and the line buffer are empty and the output
\* ends with the line's newline.
C14_NewlineFlushes ==
    (pc = "loop" /\ pos >= 1 /\ ByteRead = "\n")
        => (tok = <<>> /\ line = <<>> /\ out # <<>> /\ out[Len(out)] = "\n")

\* C15 (line-comment mode ends at the newline): right after a newline byte
\* has been processed, the mode is not line-comment.
C15_LineCommentEndsAtNewline ==
    (pc = "loop" /\ pos >= 1 /\ ByteRead = "\n")
        => syntaxMode # "line-comment"

\* C16 (only the four listed transitions): a step of the byte loop changes
\* the mode only from Normal to block-comment on /*, from Normal to
\* line-comment on //, from block-comment to Normal on */, or from
\* line-comment to Normal on a newline.
C16_OnlyListedTransitions ==
    [][(pc = "loop" /\ pc' = "loop" /\ syntaxMode' # syntaxMode)
          => LET b    == content[pos + 1]
                 prev == IF pos = 0 THEN ZeroByte ELSE content[pos]
             IN  \/ /\ syntaxMode = "" /\ syntaxMode' = "block-comment"
                    /\ prev = "/" /\ b = "*"
                 \/ /\ syntaxMode = "" /\ syntaxMode' = "line-comment"
                    /\ prev = "/" /\ b = "/"
                 \/ /\ syntaxMode = "block-comment" /\ syntaxMode' = ""
                    /\ prev = "*" /\ b = "/"
                 \/ /\ syntaxMode = "line-comment" /\ syntaxMode' = ""
                    /\ b = "\n"]_vars

\* C17 (block-comment mode ends only at */): a step of the byte loop taken in
\* block-comment mode ends in Normal mode exactly when it reads a / right
\* behind a *, and in block-comment mode otherwise.
C17_BlockCommentEndsOnlyAtMarker ==
    [][(pc = "loop" /\ pc' = "loop" /\ syntaxMode = "block-comment")
          => IF pos >= 1 /\ content[pos] = "*" /\ content[pos + 1] = "/"
             THEN syntaxMode' = ""
             ELSE syntaxMode' = "block-comment"]_vars

\* C18 (indent tracking is per line and leading-only): once a byte other than
\* tab and space has been read on the line in progress, the indent holds the
\* numbers of tabs and of spaces of that line's leading whitespace.
C18_IndentLeadingOnly ==
    (pc = "loop"
       /\ Len(LeadingWhitespace(LineInProgress)) < Len(LineInProgress))
        => /\ lineIndent.tabs = Count(LeadingWhitespace(LineInProgress), "\t")
           /\ lineIndent.spaces = Count(LeadingWhitespace(LineInProgress), " ")

C20_LineHoldsPlacedBytes ==
    pc = "loop" => line = LastLine(out \o line)

\* C21 (one-byte lookback of the inline main): whenever the byte loop of the
\* inline main examines a byte, lastB is the input byte right before it, or
\* the zero byte before the first byte.
C21_LastBIsPrecedingByte ==
    pc = "loop" => lastB = (IF pos = 0 THEN ZeroByte ELSE content[pos])
====
